---------------------------- MODULE Spec2Model ----------------------------
(***************************************************************************)
(* Model of bloxorzgame.py (class BloxorzGame): the map validator and      *)
(* parser, the state validator, the two move operators pitch_block and     *)
(* roll_block, and the search interface actions / result / goal_test.      *)
(*                                                                         *)
(* Conventions                                                             *)
(*   - a str is a sequence of one-character strings;                       *)
(*   - a Python list or tuple is a sequence, element k of Python being     *)
(*     element k+1 here; PyIndex does Python's index arithmetic, with      *)
(*     negative indices counting from the end and anything else raising;  *)
(*   - a block state [[x, y], o] is the record [pos, o, is_list]: is_list  *)
(*     tells the list [x, y] from the tuple (x, y) that init_map returns,  *)
(*     which list(goal[0]) == state[0] in goal_test distinguishes;         *)
(*   - a call's outcome is a record with exc = "None" or the name of the   *)
(*     exception raised.                                                   *)
(***************************************************************************)
EXTENDS Integers, Sequences, FiniteSets, TLC

VARIABLES
    _map,       \* self._map, the decoded tile grid
    _decoder,   \* self._decoder, the stored tile codec
    initial,    \* self.initial, the parsed initial state
    goal,       \* self.goal, the parsed goal set
    _state,     \* self._state, the current-state cell of the game
    node,       \* the state the search collaborator holds
    path,       \* the actions the collaborator applied to reach node
    last,       \* the most recent call and its outcome
    aliased,    \* self._state is the very object a caller passed in
    procs       \* the explorations that share the game, statement by statement

vars == <<_map, _decoder, initial, goal, _state, node, path, last, aliased, procs>>

-----------------------------------------------------------------------------
(* Tile values of the decoded map.                                         *)

_BLOCK_VAL == 2

_GOAL_VAL == -1

EMPTY_VAL == 0

SAFE_VAL == 1

(* Orientation of a flat block is its axis, 1 (x) or 2 (y); 3 is vertical. *)
VERTICAL == 3

-----------------------------------------------------------------------------
(* Python built-ins used by the code.                                      *)

abs(d) == IF d < 0 THEN -d ELSE d

(* seq[k] for a Python index k: the 1-based position, or 0 for IndexError. *)
PyIndex(len, k) ==
    IF 0 <= k /\ k < len THEN k + 1
    ELSE IF k < 0 /\ -len <= k THEN len + k + 1
    ELSE 0

(* int(a / b) for b # 0: true division, then truncation towards zero.      *)
int_div(a, b) ==
    LET q == abs(a) \div abs(b)
    IN  IF (a < 0) = (b < 0) THEN q ELSE -q

(* str.replace(ch, '') for a one-character ch.                             *)
RECURSIVE replace(_, _)
replace(s, ch) ==
    IF s = <<>> THEN <<>>
    ELSE IF Head(s) = ch THEN replace(Tail(s), ch)
    ELSE <<Head(s)>> \o replace(Tail(s), ch)

(* str.split(sep) for a one-character sep: a list of len(parts) >= 1.      *)
RECURSIVE split(_, _)
split(s, sep) ==
    IF s = <<>> THEN << <<>> >>
    ELSE LET rest == split(Tail(s), sep)
         IN  IF Head(s) = sep THEN << <<>> >> \o rest
             ELSE << <<Head(s)>> \o Head(rest) >> \o Tail(rest)

(* str.count(ch) and list.count(v).                                        *)
count(s, v) == Cardinality({k \in 1..Len(s) : s[k] = v})

(* list.index(v, start): Python index of the first v at or after start,    *)
(* or -1 standing for the ValueError of an absent value.                   *)
index(s, v, start) ==
    LET hits == {k \in 0..(Len(s) - 1) : k >= start /\ s[k + 1] = v}
    IN  IF hits = {} THEN -1
        ELSE CHOOSE k \in hits : \A h \in hits : k <= h

-----------------------------------------------------------------------------
(* Tile codec.                                                             *)

decoder_gen(empty, safe, block, goal_sym, col_sep, row_sep) ==
    [empty |-> empty, safe |-> safe, block |-> block, goal |-> goal_sym,
     col_sep |-> col_sep, row_sep |-> row_sep]

default_decoder == decoder_gen("X", "O", "S", "G", " ", "\n")

(* The dict lookup decoder[char] of a tile symbol; a later key of the dict *)
(* literal wins when two symbols coincide.                                 *)
decode(decoder, char) ==
    IF char = decoder.goal THEN _GOAL_VAL
    ELSE IF char = decoder.block THEN _BLOCK_VAL
    ELSE IF char = decoder.safe THEN SAFE_VAL
    ELSE EMPTY_VAL

-----------------------------------------------------------------------------
(* Map validator.                                                          *)

(* Mutant: a map without any block marker passes the count check.          *)
validate_map_no_lower_bound(str_map, decoder) ==
    LET filtered_map == split(replace(str_map, decoder.col_sep), decoder.row_sep)
        rectangular  == \A i \in 2..Len(filtered_map) :
                            Len(filtered_map[1]) = Len(filtered_map[i])
        blocks       == count(str_map, decoder.block)
        rest         == replace(replace(replace(replace(replace(replace(
                            str_map, decoder.empty), decoder.safe), decoder.block),
                            decoder.goal), decoder.col_sep), decoder.row_sep)
    IN  /\ rectangular
        /\ blocks < 3
        /\ Len(rest) = 0

validate_map(str_map, decoder) ==
    LET filtered_map == split(replace(str_map, decoder.col_sep), decoder.row_sep)
        rectangular  == \A i \in 2..Len(filtered_map) :
                            Len(filtered_map[1]) = Len(filtered_map[i])
        blocks       == count(str_map, decoder.block)
        rest         == replace(replace(replace(replace(replace(replace(
                            str_map, decoder.empty), decoder.safe), decoder.block),
                            decoder.goal), decoder.col_sep), decoder.row_sep)
    IN  /\ rectangular
        /\ 0 < blocks /\ blocks < 3
        /\ Len(rest) = 0

-----------------------------------------------------------------------------
(* Block states.                                                           *)

(* [[x, y], o] with a list position, as the move operators build it.       *)
list_state(x, y, o) == [pos |-> <<x, y>>, o |-> o, is_list |-> TRUE]

(* ((x, y), o) with a tuple position, as init_map returns it.              *)
tuple_state(x, y, o) == [pos |-> <<x, y>>, o |-> o, is_list |-> FALSE]

(* [None, None], the placement before any block tile was met.              *)
none_state == [pos |-> <<>>, o |-> 0, is_list |-> FALSE]

(* The deep copy [[s[0][0], s[0][1]], s[1]] the methods take.              *)
deep_copy(s) == list_state(s.pos[1], s.pos[2], s.o)

-----------------------------------------------------------------------------
(* Map parser.                                                             *)

(* The inner loop of init_map over the goal tiles of row j: the k-th       *)
(* search resumes at i + 1, i being the previous match, initially 0.       *)
RECURSIVE row_goals(_, _, _, _)
row_goals(row, j, k, i) ==
    IF k = 0 THEN [exc |-> "None", goal |-> <<>>]
    ELSE LET i2 == index(row, _GOAL_VAL, i + 1)
         IN  IF i2 = -1 THEN [exc |-> "ValueError", goal |-> <<>>]
             ELSE LET rest == row_goals(row, j, k - 1, i2)
                  IN  [exc  |-> rest.exc,
                       goal |-> <<tuple_state(i2, j, VERTICAL)>> \o rest.goal]

(* The block-tile branch of the loop body for row j.                       *)
row_block(map, j, init) ==
    LET row == map[j + 1]
        num_block_tiles == count(row, _BLOCK_VAL)
        i == index(row, _BLOCK_VAL, 0)
    IN  IF num_block_tiles = 2
        THEN [exc |-> "None", initial |-> tuple_state(i, j, 1)]
        ELSE IF init.pos = <<>> /\ num_block_tiles = 1
        THEN (* self._map[i][j + 1]: row i, column j + 1 *)
             IF PyIndex(Len(map), i) = 0 THEN [exc |-> "IndexError", initial |-> init]
             ELSE IF PyIndex(Len(map[PyIndex(Len(map), i)]), j + 1) = 0
             THEN [exc |-> "IndexError", initial |-> init]
             ELSE IF map[PyIndex(Len(map), i)][PyIndex(Len(map[PyIndex(Len(map), i)]), j + 1)]
                        = _BLOCK_VAL
             THEN [exc |-> "None", initial |-> tuple_state(i, j, 2)]
             ELSE [exc |-> "None", initial |-> tuple_state(i, j, VERTICAL)]
        ELSE [exc |-> "None", initial |-> init]

(* The loop of init_map over the rows j, j + 1, ... of the decoded map.    *)
RECURSIVE scan_rows(_, _, _, _)
scan_rows(map, j, init, goals) ==
    IF j >= Len(map) THEN [exc |-> "None", initial |-> init, goal |-> goals]
    ELSE LET g == row_goals(map[j + 1], j, count(map[j + 1], _GOAL_VAL), 0)
         IN  IF g.exc # "None"
             THEN [exc |-> g.exc, initial |-> init, goal |-> goals]
             ELSE LET b == row_block(map, j, init)
                  IN  IF b.exc # "None"
                      THEN [exc |-> b.exc, initial |-> init, goal |-> goals]
                      ELSE scan_rows(map, j + 1, b.initial, goals \o g.goal)

(* init_map: the decoded map, the initial state and the goal set, or the   *)
(* exception raised.                                                       *)
init_map(str_map, decoder) ==
    IF ~validate_map(str_map, decoder)
    THEN [exc |-> "ValueError", map |-> <<>>, initial |-> none_state, goal |-> <<>>]
    ELSE LET filtered_map == split(replace(str_map, decoder.col_sep), decoder.row_sep)
             map == [j \in 1..Len(filtered_map) |->
                        [i \in 1..Len(filtered_map[j]) |-> decode(decoder, filtered_map[j][i])]]
             r == scan_rows(map, 0, none_state, <<>>)
         IN  [exc |-> r.exc, map |-> map, initial |-> r.initial, goal |-> r.goal]

-----------------------------------------------------------------------------
(* State validator.                                                        *)

(* self._map[row][col] with Python's indexing: the tile, or IndexError.    *)
map_at(row, col) ==
    LET r == PyIndex(Len(_map), row)
    IN  IF r = 0 THEN [exc |-> "IndexError", val |-> 0]
        ELSE LET c == PyIndex(Len(_map[r]), col)
             IN  IF c = 0 THEN [exc |-> "IndexError", val |-> 0]
                 ELSE [exc |-> "None", val |-> _map[r][c]]

validate_state(state) ==
    LET x == state.pos[1]
        y == state.pos[2]
        anchor == map_at(y, x)
        second == map_at(IF state.o = 2 THEN y + 1 ELSE y,
                         IF state.o = 1 THEN x + 1 ELSE x)
    IN  IF anchor.exc # "None" THEN [exc |-> anchor.exc, val |-> FALSE]
        ELSE IF anchor.val = EMPTY_VAL THEN [exc |-> "None", val |-> FALSE]
        ELSE IF state.o = VERTICAL THEN [exc |-> "None", val |-> TRUE]
        ELSE IF second.exc # "None" THEN [exc |-> second.exc, val |-> FALSE]
        ELSE IF second.val = EMPTY_VAL THEN [exc |-> "None", val |-> FALSE]
        ELSE [exc |-> "None", val |-> TRUE]

-----------------------------------------------------------------------------
(* Move operators.  self_state is self._state at the call; the outcome     *)
(* carries the value returned or the exception raised, and self._state     *)
(* after the call.                                                         *)

(* Mutant: a flat block may not pitch at all.                              *)
pitch_allowed_vertical_only(o, d) == o = VERTICAL

(* The geometric precondition of pitch_block.                              *)
pitch_allowed(o, d) == o = abs(d) \/ o = VERTICAL

(* Mutant: the displacements of the Vertical and the flat case swapped.    *)
pitch_displacement_swapped(o, d) ==
    IF o = VERTICAL THEN (IF d < 0 THEN -1 ELSE 2)
    ELSE (IF d < 0 THEN -2 ELSE 1)

(* The displacement of a pitch of a block of orientation o.                *)
pitch_displacement(o, d) ==
    IF o = VERTICAL THEN (IF d < 0 THEN -2 ELSE 1)
    ELSE (IF d < 0 THEN -1 ELSE 2)

(* Mutant: a pitch that leaves a flat block flat.                          *)
pitch_orientation_kept(o, d) == IF o = VERTICAL THEN abs(d) ELSE o

(* The orientation after a pitch.                                          *)
pitch_orientation(o, d) == IF o = VERTICAL THEN abs(d) ELSE VERTICAL

(* Mutant: the probe validates the copy before it is displaced.            *)
pitch_block_stale_probe(self_state, d, apply_action) ==
    IF pitch_allowed(self_state.o, d)
    THEN LET copy == deep_copy(self_state)
             k == PyIndex(2, abs(d) - 1)
         IN  IF k = 0
             THEN [exc |-> "IndexError", val |-> FALSE, state |-> self_state]
             ELSE LET state == [copy EXCEPT
                                   !.pos[k] = @ + pitch_displacement(copy.o, d),
                                   !.o = pitch_orientation(copy.o, d)]
                  IN  IF ~apply_action
                      THEN [exc |-> validate_state(copy).exc,
                            val |-> validate_state(copy).val,
                            state |-> self_state]
                      ELSE [exc |-> "None", val |-> TRUE, state |-> state]
    ELSE [exc |-> "None", val |-> FALSE, state |-> self_state]

pitch_block(self_state, d, apply_action) ==
    IF pitch_allowed(self_state.o, d)
    THEN LET copy == deep_copy(self_state)
             k == PyIndex(2, abs(d) - 1)
         IN  IF k = 0
             THEN [exc |-> "IndexError", val |-> FALSE, state |-> self_state]
             ELSE LET state == [copy EXCEPT
                                   !.pos[k] = @ + pitch_displacement(copy.o, d),
                                   !.o = pitch_orientation(copy.o, d)]
                  IN  IF ~apply_action
                      THEN [exc |-> validate_state(state).exc,
                            val |-> validate_state(state).val,
                            state |-> self_state]
                      ELSE [exc |-> "None", val |-> TRUE, state |-> state]
    ELSE [exc |-> "None", val |-> FALSE, state |-> self_state]

(* Mutant: a Vertical block may roll.                                      *)
roll_allowed_perpendicular(o, d) == o # abs(d)

(* The geometric precondition of roll_block.                               *)
roll_allowed(o, d) == o # abs(d) /\ o # VERTICAL

(* Mutant: the direction token taken as the displacement.                  *)
roll_displacement_raw(d) == d

(* int(d / abs(d)) for d # 0.                                              *)
roll_displacement(d) == int_div(d, abs(d))

roll_block(self_state, d, apply_action) ==
    IF roll_allowed(self_state.o, d)
    THEN LET copy == deep_copy(self_state)
             k == PyIndex(2, abs(d) - 1)
         IN  IF k = 0
             THEN [exc |-> "IndexError", val |-> FALSE, state |-> self_state]
             ELSE IF abs(d) = 0
             THEN [exc |-> "ZeroDivisionError", val |-> FALSE, state |-> self_state]
             ELSE LET state == [copy EXCEPT !.pos[k] = @ + roll_displacement(d)]
                  IN  IF ~apply_action
                      THEN [exc |-> validate_state(state).exc,
                            val |-> validate_state(state).val,
                            state |-> self_state]
                      ELSE [exc |-> "None", val |-> TRUE, state |-> state]
    ELSE [exc |-> "None", val |-> FALSE, state |-> self_state]

(* A bound method called with its arguments.                               *)
call(op, self_state, d, apply_action) ==
    IF op = "pitch_block" THEN pitch_block(self_state, d, apply_action)
    ELSE roll_block(self_state, d, apply_action)

-----------------------------------------------------------------------------
(* Search interface.                                                       *)

(* The (action, arg) pairs in the order the comprehension of actions tries *)
(* them.                                                                   *)
act_arg_order ==
    << <<"pitch_block", 1>>, <<"pitch_block", 2>>, <<"pitch_block", -2>>,
       <<"pitch_block", -1>>, <<"roll_block", 1>>, <<"roll_block", 2>>,
       <<"roll_block", -2>>, <<"roll_block", -1>> >>

(* The comprehension from its n-th pair on, self._state being state.       *)
RECURSIVE act_arg_from(_, _)
act_arg_from(state, n) ==
    IF n > Len(act_arg_order) THEN [exc |-> "None", val |-> <<>>]
    ELSE LET probe == call(act_arg_order[n][1], state, act_arg_order[n][2], FALSE)
         IN  IF probe.exc # "None" THEN [exc |-> probe.exc, val |-> <<>>]
             ELSE LET rest == act_arg_from(state, n + 1)
                  IN  [exc |-> rest.exc,
                       val |-> IF rest.exc # "None" THEN <<>>
                               ELSE IF probe.val THEN <<act_arg_order[n]>> \o rest.val
                               ELSE rest.val]

(* actions(state): the list returned with self._state restored from the    *)
(* backup, or the exception with self._state left at state.                *)
actions(self_state, state) ==
    LET backup_state == deep_copy(self_state)
        act_arg == act_arg_from(state, 1)
    IN  [exc |-> act_arg.exc, val |-> act_arg.val,
         state |-> IF act_arg.exc = "None" THEN backup_state ELSE state]

(* result(state, action), action being the pair <<operator, d>>.           *)
result(self_state, state, action) ==
    LET backup_state == deep_copy(self_state)
        applied == call(action[1], state, action[2], TRUE)
    IN  IF applied.exc # "None"
        THEN [exc |-> applied.exc, val |-> state, state |-> applied.state]
        ELSE [exc |-> "None", val |-> deep_copy(applied.state), state |-> backup_state]

(* Mutant: a goal is met in any orientation.                               *)
RECURSIVE goal_test_from_position_only(_, _)
goal_test_from_position_only(state, n) ==
    IF n > Len(goal) THEN FALSE
    ELSE IF state.is_list /\ goal[n].pos = state.pos THEN TRUE
    ELSE goal_test_from_position_only(state, n + 1)

(* goal_test(state) over the goals from the n-th on.                       *)
RECURSIVE goal_test_from(_, _)
goal_test_from(state, n) ==
    IF n > Len(goal) THEN FALSE
    ELSE IF state.is_list /\ goal[n].pos = state.pos THEN goal[n].o = state.o
    ELSE goal_test_from(state, n + 1)

goal_test(state) == goal_test_from(state, 1)

-----------------------------------------------------------------------------
(* Bounds and inputs.                                                      *)

(* How far outside the grid the current state may be driven.               *)
MaxDrift == 2

(* How many actions the search collaborator applies from the initial state.*)
MaxDepth == 3

Directions == {-2, -1, 1, 2}

(* Direction tokens a test injects.                                        *)
InjectedTokens == {-3, 0, 3}

Operators == {"pitch_block", "roll_block"}

(* The text of a map given as rows of tile symbols, default separators.    *)
RECURSIVE join(_, _)
join(parts, sep) ==
    IF Len(parts) = 0 THEN <<>>
    ELSE IF Len(parts) = 1 THEN Head(parts)
    ELSE Head(parts) \o <<sep>> \o join(Tail(parts), sep)

text_of(rows) ==
    join([j \in 1..Len(rows) |->
             join([i \in 1..Len(rows[j]) |-> <<rows[j][i]>>], " ")], "\n")

ScenarioText ==
    text_of(<< <<"X", "X", "X", "X">>,
               <<"X", "S", "S", "X">>,
               <<"X", "O", "O", "G">>,
               <<"X", "X", "X", "X">> >>)

BoxedText ==
    text_of(<< <<"X", "X", "X">>,
               <<"X", "S", "X">>,
               <<"X", "X", "X">> >>)

UprightText ==
    text_of(<< <<"O", "G", "O">>,
               <<"O", "S", "G">>,
               <<"O", "O", "X">> >>)

LyingYText ==
    text_of(<< <<"O", "S">>,
               <<"O", "S">> >>)

SingleRowText ==
    text_of(<< <<"S", "S", "O", "G">> >>)

OpenText ==
    text_of(<< <<"S", "O", "O">>,
               <<"O", "O", "O">>,
               <<"O", "O", "G">> >>)

MapTexts ==
    {ScenarioText, BoxedText, UprightText, LyingYText, SingleRowText, OpenText}

(* The longest raw text given to the validator and the parser.             *)
MaxTextLen == 4

(* The most tiles of a rectangular map given to the parser.                *)
MaxTiles == 6

(* The characters of the raw texts: the default symbols and a stray one.   *)
Alphabet == {"X", "O", "S", "G", " ", "\n", "?"}

TileSymbols == {"X", "O", "S", "G"}

(* A codec of a caller, with the symbols of the default one permuted.      *)
custom_decoder == decoder_gen("O", "X", "G", "S", "\n", " ")

(* decoder=None: the stored codec is used.                                 *)
no_decoder == decoder_gen("", "", "", "", "", "")

RawTexts == UNION {[1..n -> Alphabet] : n \in 0..MaxTextLen}

(* The texts of all grids of at most MaxTiles tiles, default separators.   *)
GridTexts ==
    UNION {{text_of(grid) : grid \in [1..h -> [1..w -> TileSymbols]]} :
              <<h, w>> \in {hw \in (1..MaxTiles) \X (1..MaxTiles) :
                                hw[1] * hw[2] <= MaxTiles}}

(* The (text, decoder) arguments of validate_map and init_map.             *)
ParseInputs ==
    (RawTexts \X {default_decoder, custom_decoder})
        \cup (GridTexts \X {default_decoder, no_decoder})

(* The current state stays within MaxDrift tiles of the grid.              *)
within_drift(state) ==
    /\ state.pos[1] \in (-MaxDrift)..(Len(_map[1]) - 1 + MaxDrift)
    /\ state.pos[2] \in (-MaxDrift)..(Len(_map) - 1 + MaxDrift)

-----------------------------------------------------------------------------
(* The game object.                                                        *)

(* The explorations that may share one game object.                        *)
Explorations == {1, 2}

(* An exploration that has not called the game yet.                        *)
idle_proc ==
    [pc |-> "idle", op |-> "none", state |-> none_state, action |-> <<>>,
     backup_state |-> none_state, n |-> 0, act_arg |-> <<>>,
     exc |-> "None", val |-> <<>>]

(* One call and its outcome: the method, its direction and mode or its     *)
(* state argument and action, self._state before, and what came back.      *)
call_record(op, d, apply_action, pre, arg, action, exc, val) ==
    [op |-> op, d |-> d, apply_action |-> apply_action, pre |-> pre,
     arg |-> arg, action |-> action, exc |-> exc, val |-> val]

(* __init__(game_map) with the default decoder, for a map it accepts.      *)
Init ==
    \E game_map \in MapTexts :
        LET problem_parameters == init_map(game_map, default_decoder)
        IN  /\ problem_parameters.exc = "None"
            /\ _map = problem_parameters.map
            /\ _decoder = default_decoder
            /\ initial = problem_parameters.initial
            /\ goal = problem_parameters.goal
            /\ _state = deep_copy(problem_parameters.initial)
            /\ node = problem_parameters.initial
            /\ path = <<>>
            /\ last = call_record("__init__", 0, FALSE, none_state, none_state,
                                  <<>>, "None", FALSE)
            /\ aliased = FALSE
            /\ procs = [p \in Explorations |-> idle_proc]

(* pitch_block(d, apply_action) called on the game.                        *)
PitchBlock(d, apply_action) ==
    LET r == pitch_block(_state, d, apply_action)
    IN  /\ within_drift(r.state)
        /\ _state' = r.state
        /\ last' = call_record("pitch_block", d, apply_action, _state, none_state,
                               <<>>, r.exc, r.val)
        /\ aliased' = (aliased /\ r.state = _state)
        /\ UNCHANGED <<_map, _decoder, initial, goal, node, path, procs>>

(* roll_block(d, apply_action) called on the game.                         *)
RollBlock(d, apply_action) ==
    LET r == roll_block(_state, d, apply_action)
    IN  /\ within_drift(r.state)
        /\ _state' = r.state
        /\ last' = call_record("roll_block", d, apply_action, _state, none_state,
                               <<>>, r.exc, r.val)
        /\ aliased' = (aliased /\ r.state = _state)
        /\ UNCHANGED <<_map, _decoder, initial, goal, node, path, procs>>

(* validate_state(self._state) called on the game.                         *)
ValidateState ==
    LET r == validate_state(_state)
    IN  /\ last' = call_record("validate_state", 0, FALSE, _state, _state, <<>>,
                               r.exc, r.val)
        /\ UNCHANGED <<_map, _decoder, initial, goal, _state, node, path, aliased,
                       procs>>

(* actions(node) called by the search collaborator.                        *)
Actions ==
    LET r == actions(_state, node)
    IN  /\ _state' = r.state
        /\ last' = call_record("actions", 0, FALSE, _state, node, <<>>, r.exc, r.val)
        /\ aliased' = (r.exc # "None")
        /\ UNCHANGED <<_map, _decoder, initial, goal, node, path, procs>>

(* node = result(node, action) by the search collaborator.                 *)
Result(action) ==
    LET r == result(_state, node, action)
    IN  /\ Len(path) < MaxDepth
        /\ _state' = r.state
        /\ node' = r.val
        /\ path' = Append(path, action)
        /\ last' = call_record("result", 0, TRUE, _state, node, action, r.exc, r.val)
        /\ aliased' = (r.exc # "None")
        /\ UNCHANGED <<_map, _decoder, initial, goal, procs>>

(* goal_test(node) called by the search collaborator.                      *)
GoalTest ==
    /\ last' = call_record("goal_test", 0, FALSE, _state, node, <<>>, "None",
                           goal_test(node))
    /\ UNCHANGED <<_map, _decoder, initial, goal, _state, node, path, aliased, procs>>

(* The move operators driven directly, with legal and injected tokens.     *)
Next ==
    \/ \E d \in Directions \cup InjectedTokens, apply_action \in BOOLEAN :
           \/ PitchBlock(d, apply_action)
           \/ RollBlock(d, apply_action)
    \/ ValidateState

Spec == Init /\ [][Next]_vars

(* validate_map(str_map, decoder), a static method, as the first call      *)
(* after construction.                                                     *)
ValidateMap(str_map, decoder) ==
    /\ last.op = "__init__"
    /\ last' = call_record("validate_map", 0, FALSE,
                           [map |-> _map, decoder |-> _decoder],
                           [str_map |-> str_map, decoder |-> decoder], <<>>,
                           "None", validate_map(str_map, decoder))
    /\ UNCHANGED <<_map, _decoder, initial, goal, _state, node, path, aliased, procs>>

(* init_map(str_map, decoder) called on the game: the stored codec is set  *)
(* first, the map is stored once the text is validated, and the scan may   *)
(* still raise after that.  It is explored as the first call after        *)
(* construction.                                                           *)
InitMap(str_map, decoder) ==
    LET effective == IF decoder = no_decoder THEN _decoder ELSE decoder
        r == init_map(str_map, effective)
    IN  /\ last.op = "__init__"
        /\ _decoder' = effective
        /\ _map' = IF validate_map(str_map, effective) THEN r.map ELSE _map
        /\ last' = call_record("init_map", 0, FALSE,
                               [map |-> _map, decoder |-> _decoder],
                               [str_map |-> str_map, decoder |-> effective], <<>>,
                               r.exc, [initial |-> r.initial, goal |-> r.goal])
        /\ UNCHANGED <<initial, goal, _state, node, path, aliased, procs>>

(* The game built from the scenario map, before it is handed new texts.    *)
InitParse ==
    /\ Init
    /\ _map = init_map(ScenarioText, default_decoder).map

NextParse ==
    /\ last.op = "__init__"
    /\ \E input \in ParseInputs :
           \/ /\ input[2] # no_decoder
              /\ ValidateMap(input[1], input[2])
           \/ InitMap(input[1], input[2])

SpecParse == InitParse /\ [][NextParse]_vars

(* The states the explorations sharing a game start from: the initial     *)
(* state and the states one move away from it.                             *)
StartStates ==
    {deep_copy(initial)} \cup
    {result(_state, initial, <<op, d>>).val : op \in Operators, d \in Directions}

(* Exploration p calls actions(state) (action = <<>>) or                   *)
(* result(state, action).                                                  *)
Call(p, op, state, action) ==
    /\ procs[p].pc = "idle"
    /\ procs' = [procs EXCEPT ![p] =
                    [idle_proc EXCEPT !.pc = "backup", !.op = op, !.state = state,
                                      !.action = action]]
    /\ UNCHANGED <<_map, _decoder, initial, goal, _state, node, path, last, aliased>>

(* backup_state = [[self._state[0][0], self._state[0][1]], self._state[1]] *)
Backup(p) ==
    /\ procs[p].pc = "backup"
    /\ procs' = [procs EXCEPT ![p].pc = "set",
                              ![p].backup_state = deep_copy(_state)]
    /\ UNCHANGED <<_map, _decoder, initial, goal, _state, node, path, last, aliased>>

(* self._state = state                                                     *)
SetState(p) ==
    /\ procs[p].pc = "set"
    /\ _state' = procs[p].state
    /\ aliased' = TRUE
    /\ procs' = [procs EXCEPT ![p].pc = IF procs[p].op = "actions" THEN "probe"
                                        ELSE "apply",
                              ![p].n = 1]
    /\ UNCHANGED <<_map, _decoder, initial, goal, node, path, last>>

(* One probe action(arg, apply_action=False) of the comprehension of       *)
(* actions, on whatever self._state holds now.                             *)
Probe(p) ==
    LET pair == act_arg_order[procs[p].n]
        r == call(pair[1], _state, pair[2], FALSE)
    IN  /\ procs[p].pc = "probe"
        /\ procs' = [procs EXCEPT ![p] =
               IF r.exc # "None"
               THEN [@ EXCEPT !.pc = "done", !.exc = r.exc]
               ELSE [@ EXCEPT !.n = @ + 1,
                              !.act_arg = IF r.val THEN Append(@, pair) ELSE @,
                              !.pc = IF procs[p].n = Len(act_arg_order)
                                     THEN "restore" ELSE "probe"]]
        /\ UNCHANGED <<_map, _decoder, initial, goal, _state, node, path, last,
                       aliased>>

(* The call of action[0] with action[1:] in result, on whatever            *)
(* self._state holds now.                                                  *)
Apply(p) ==
    LET r == call(procs[p].action[1], _state, procs[p].action[2], TRUE)
    IN  /\ procs[p].pc = "apply"
        /\ _state' = r.state
        /\ aliased' = (aliased /\ r.state = _state)
        /\ procs' = [procs EXCEPT ![p].pc = IF r.exc # "None" THEN "done" ELSE "copy",
                                  ![p].exc = r.exc]
        /\ UNCHANGED <<_map, _decoder, initial, goal, node, path, last>>

(* state = [[self._state[0][0], self._state[0][1]], self._state[1]]        *)
CopyBack(p) ==
    /\ procs[p].pc = "copy"
    /\ procs' = [procs EXCEPT ![p].pc = "restore", ![p].state = deep_copy(_state)]
    /\ UNCHANGED <<_map, _decoder, initial, goal, _state, node, path, last, aliased>>

(* self._state = backup_state, and the return.                             *)
Restore(p) ==
    /\ procs[p].pc = "restore"
    /\ _state' = procs[p].backup_state
    /\ aliased' = FALSE
    /\ procs' = [procs EXCEPT ![p].pc = "done",
                              ![p].val = IF procs[p].op = "actions"
                                         THEN procs[p].act_arg ELSE procs[p].state]
    /\ UNCHANGED <<_map, _decoder, initial, goal, node, path, last>>

(* Two explorations on the scenario game, interleaved statement by         *)
(* statement, each probe and each apply being one step.                    *)
InitShared ==
    /\ Init
    /\ _map = init_map(ScenarioText, default_decoder).map

NextShared ==
    \E p \in Explorations :
        \/ \E state \in StartStates :
               \/ Call(p, "actions", state, <<>>)
               \/ \E op \in Operators, d \in Directions :
                      Call(p, "result", state, <<op, d>>)
        \/ Backup(p)
        \/ SetState(p)
        \/ Probe(p)
        \/ Apply(p)
        \/ CopyBack(p)
        \/ Restore(p)

SpecShared == InitShared /\ [][NextShared]_vars

(* The game driven through the search interface.                           *)
NextSearch ==
    \/ Actions
    \/ \E op \in Operators, d \in Directions : Result(<<op, d>>)
    \/ GoalTest

SpecSearch == Init /\ [][NextSearch]_vars

(* node = result(node, action) for an action that actions(node) returned,  *)
(* as the search collaborator expands a node.                              *)
Expand(action) ==
    LET act_arg == actions(_state, node)
    IN  /\ act_arg.exc = "None"
        /\ \E n \in 1..Len(act_arg.val) : act_arg.val[n] = action
        /\ Result(action)

(* The game driven by a search that applies only enumerated actions.       *)
NextExpand ==
    \/ Actions
    \/ \E op \in Operators, d \in Directions : Expand(<<op, d>>)
    \/ GoalTest

SpecExpand == Init /\ [][NextExpand]_vars

-----------------------------------------------------------------------------
(* Vocabulary of the properties.                                           *)

(* The last call was op(d) on the game, d one of the four directions.      *)
LastMove(op, apply_action) ==
    /\ last.op = op
    /\ last.apply_action = apply_action
    /\ last.d \in Directions

(* The last call returned val and raised nothing.                          *)
Returned(val) == last.exc = "None" /\ last.val = val

(* validate_state accepts state.                                           *)
Valid(state) == validate_state(state) = [exc |-> "None", val |-> TRUE]

(* The probe of op along d on state returns true.                          *)
ProbeSucceeds(op, state, d) ==
    LET r == call(op, state, d, FALSE)
    IN  r.exc = "None" /\ r.val

(* The other coordinate axis.                                              *)
OtherAxis(a) == 3 - a

Sign(d) == IF d < 0 THEN -1 ELSE 1

-----------------------------------------------------------------------------
(* C1: whenever pitch_block(d) or roll_block(d) in apply mode returns      *)
(* true, the state it commits passes validate_state.  (The claim as        *)
(* stated; apply mode commits its candidate unvalidated.)                  *)
C1_ApplyCommitsOnlyValid ==
    \A op \in Operators :
        (LastMove(op, TRUE) /\ Returned(TRUE)) => Valid(_state)

(* C1, amended: whenever the probe of the same operator and direction on   *)
(* the current state returns true, the apply-mode call returns true and    *)
(* the state it commits passes validate_state.                             *)
C1_ProbedApplyCommitsValid ==
    \A op \in Operators :
        (LastMove(op, TRUE) /\ ProbeSucceeds(op, last.pre, last.d))
            => (Returned(TRUE) /\ Valid(_state))

C1_Witness ==
    /\ LastMove("pitch_block", TRUE)
    /\ ProbeSucceeds("pitch_block", last.pre, last.d)
    /\ Returned(TRUE)
    /\ _state # last.pre

-----------------------------------------------------------------------------
(* C2: on a Vertical current state both pitch_block(d) and roll_block(d)   *)
(* in apply mode return true and commit a new state, for every direction.  *)
(* (The claim as stated; roll_block refuses a Vertical block.)             *)
C2_VerticalBothLegal ==
    \A op \in Operators :
        (LastMove(op, TRUE) /\ last.pre.o = VERTICAL)
            => (Returned(TRUE) /\ _state # last.pre)

(* C2, amended: on a Vertical current state pitch_block(d) in apply mode   *)
(* returns true and commits a flat state along axis |d| for every          *)
(* direction, while roll_block(d) returns false in both modes and leaves   *)
(* the current state unchanged.                                            *)
C2_VerticalPitchOnly ==
    /\ (LastMove("pitch_block", TRUE) /\ last.pre.o = VERTICAL)
           => (Returned(TRUE) /\ _state # last.pre /\ _state.o = abs(last.d))
    /\ \A apply_action \in BOOLEAN :
           (LastMove("roll_block", apply_action) /\ last.pre.o = VERTICAL)
               => (Returned(FALSE) /\ _state = last.pre)

C2_Witness ==
    /\ LastMove("roll_block", TRUE)
    /\ last.pre.o = VERTICAL
    /\ Returned(FALSE)

-----------------------------------------------------------------------------
(* C3: on a flat current state of axis a, pitch_block(d) passes its        *)
(* geometric precondition iff |d| = a and roll_block(d) iff |d| # a, so    *)
(* exactly one of them does; the one that does not returns false in both   *)
(* modes and leaves the current state unchanged.                           *)
C3_FlatExclusive ==
    \A apply_action \in BOOLEAN :
        /\ (LastMove("pitch_block", apply_action) /\ last.pre.o \in {1, 2})
               => /\ apply_action => (Returned(TRUE) <=> abs(last.d) = last.pre.o)
                  /\ abs(last.d) # last.pre.o
                         => (Returned(FALSE) /\ _state = last.pre)
                  /\ roll_block(last.pre, last.d, TRUE).val
                         = ~pitch_block(last.pre, last.d, TRUE).val
        /\ (LastMove("roll_block", apply_action) /\ last.pre.o \in {1, 2})
               => /\ apply_action => (Returned(TRUE) <=> abs(last.d) # last.pre.o)
                  /\ abs(last.d) = last.pre.o
                         => (Returned(FALSE) /\ _state = last.pre)
                  /\ pitch_block(last.pre, last.d, TRUE).val
                         = ~roll_block(last.pre, last.d, TRUE).val

C3_Witness ==
    /\ LastMove("roll_block", FALSE)
    /\ last.pre.o = 2
    /\ abs(last.d) = 2
    /\ Returned(FALSE)

-----------------------------------------------------------------------------
(* C4: a pitch along d that is geometrically allowed turns a Vertical      *)
(* block flat along |d|, moving it by -2 (d < 0) or +1 (d > 0) on that     *)
(* axis, and a flat block Vertical, moving it by -1 (d < 0) or +2          *)
(* (d > 0); the coordinate on the other axis stays.                        *)
C4_PitchArithmetic ==
    (/\ LastMove("pitch_block", TRUE)
     /\ last.pre.o = VERTICAL \/ last.pre.o = abs(last.d))
        => LET a == abs(last.d)
               delta == _state.pos[a] - last.pre.pos[a]
           IN  /\ Returned(TRUE)
               /\ _state.pos[OtherAxis(a)] = last.pre.pos[OtherAxis(a)]
               /\ last.pre.o = VERTICAL
                      => /\ _state.o = a
                         /\ delta = IF last.d < 0 THEN -2 ELSE 1
               /\ last.pre.o # VERTICAL
                      => /\ _state.o = VERTICAL
                         /\ delta = IF last.d < 0 THEN -1 ELSE 2

C4_Witness ==
    /\ LastMove("pitch_block", TRUE)
    /\ last.pre.o = 2
    /\ last.d = -2
    /\ _state.o = VERTICAL
    /\ _state.pos[2] = last.pre.pos[2] - 1

-----------------------------------------------------------------------------
(* C5: a roll along d carried out in apply mode moves the block by exactly *)
(* sign(d) on axis |d| and changes neither the other coordinate nor the    *)
(* orientation.                                                            *)
C5_RollArithmetic ==
    (LastMove("roll_block", TRUE) /\ Returned(TRUE))
        => LET a == abs(last.d)
           IN  /\ _state.pos[a] = last.pre.pos[a] + Sign(last.d)
               /\ _state.pos[OtherAxis(a)] = last.pre.pos[OtherAxis(a)]
               /\ _state.o = last.pre.o

C5_Witness ==
    /\ LastMove("roll_block", TRUE)
    /\ Returned(TRUE)
    /\ last.d = -2
    /\ _state.pos[2] = last.pre.pos[2] - 1

-----------------------------------------------------------------------------
(* C6: actions(s) returns exactly the (operator, direction) pairs whose    *)
(* probe on s returns true, over the two operators and four directions,    *)
(* and the empty sequence when no probe does.                              *)
C6_ActionsExact ==
    last.op = "actions"
        => /\ last.exc = "None"
           /\ \A n \in 1..Len(last.val) :
                  /\ last.val[n][1] \in Operators
                  /\ last.val[n][2] \in Directions
           /\ \A op \in Operators, d \in Directions :
                  (\E n \in 1..Len(last.val) : last.val[n] = <<op, d>>)
                      <=> ProbeSucceeds(op, last.arg, d)

-----------------------------------------------------------------------------
(* C7: goal_test(s) returns true iff the position of s is the position of  *)
(* some goal entry and s is Vertical.                                      *)
C7_GoalTest ==
    last.op = "goal_test"
        => (last.val <=> /\ \E n \in 1..Len(goal) : goal[n].pos = last.arg.pos
                         /\ last.arg.o = VERTICAL)

C7_Witness ==
    /\ last.op = "goal_test"
    /\ last.val
    /\ path # <<>>

-----------------------------------------------------------------------------
(* The game of the concrete scenario.                                      *)
ScenarioGame == _map = init_map(ScenarioText, default_decoder).map

RollDown == <<"roll_block", 2>>

PitchRight == <<"pitch_block", 1>>

(* On the scenario map the parsed initial state lies along x at the left   *)
(* block marker, and each roll with d = +2 moves it one row down, still    *)
(* along x.                                                                *)
ScenarioRolls ==
    /\ initial = tuple_state(1, 1, 1)
    /\ path = <<RollDown>> => node = list_state(1, 2, 1)
    /\ path = <<RollDown, RollDown>> => node = list_state(1, 3, 1)

(* C8: on the scenario map two rolls with d = +2 and then a pitch along x  *)
(* end Vertical on the goal tile, where goal_test returns true.  (The      *)
(* claim as stated; the block starts one row above the goal row.)          *)
C8_TwoRollsThenPitch ==
    ScenarioGame
        => /\ ScenarioRolls
           /\ path = <<RollDown, RollDown, PitchRight>>
                  => /\ node = list_state(3, 2, VERTICAL)
                     /\ goal_test(node)

(* C8, amended: on the scenario map one roll with d = +2 and then a pitch  *)
(* with d = +1 end Vertical on the goal tile (3, 2), where goal_test       *)
(* returns true.                                                           *)
C8_OneRollThenPitch ==
    ScenarioGame
        => /\ ScenarioRolls
           /\ path = <<RollDown, PitchRight>>
                  => /\ node = list_state(3, 2, VERTICAL)
                     /\ goal[1] = tuple_state(3, 2, VERTICAL)
                     /\ goal_test(node)
                     /\ last.op = "goal_test" => last.val

C8_Witness ==
    /\ ScenarioGame
    /\ path = <<RollDown, PitchRight>>
    /\ last.op = "goal_test"
    /\ last.val

-----------------------------------------------------------------------------
(* Every tile the block occupies in state lies inside the grid.            *)
InGrid(state) ==
    /\ state.o \in {1, 2, VERTICAL}
    /\ state.pos[1] >= 0
    /\ state.pos[2] >= 0
    /\ state.pos[1] + (IF state.o = 1 THEN 1 ELSE 0) < Len(_map[1])
    /\ state.pos[2] + (IF state.o = 2 THEN 1 ELSE 0) < Len(_map)

(* The state op(d) would commit from state.                                *)
Candidate(op, state, d) == call(op, state, d, TRUE).state

(* C9: on a current state inside the grid a probe of either operator       *)
(* along any direction raises nothing, and returns false when its          *)
(* candidate lies partly or wholly outside the grid.                       *)
C9_ProbeNeverRaises ==
    \A op \in Operators :
        (LastMove(op, FALSE) /\ InGrid(last.pre))
            => /\ last.exc = "None"
               /\ ~InGrid(Candidate(op, last.pre, last.d)) => ~last.val

-----------------------------------------------------------------------------
(* C10: a direction token outside {-2, -1, 1, 2} makes either operator     *)
(* return false, raise nothing and leave the current state unchanged.      *)
C10_InjectedRejected ==
    (last.op \in Operators /\ last.d \in InjectedTokens)
        => (Returned(FALSE) /\ _state = last.pre)

-----------------------------------------------------------------------------
(* The tiles the block occupies in state: <<x, y>> pairs.                  *)
Occupied(state) ==
    {state.pos} \cup
    (IF state.o = 1 THEN {<<state.pos[1] + 1, state.pos[2]>>}
     ELSE IF state.o = 2 THEN {<<state.pos[1], state.pos[2] + 1>>}
     ELSE {})

(* <<x, y>> is a tile of the grid and is not Empty.                        *)
Supporting(tile) ==
    /\ tile[1] \in 0..(Len(_map[1]) - 1)
    /\ tile[2] \in 0..(Len(_map) - 1)
    /\ _map[tile[2] + 1][tile[1] + 1] # EMPTY_VAL

(* C11: validate_state returns true iff every tile the block would occupy  *)
(* is a non-Empty tile of the map: the anchor and, when flat, the second   *)
(* tile along the lying axis.                                              *)
C11_ValidateStateIff ==
    (last.op = "validate_state" /\ last.arg.o \in {1, 2, VERTICAL})
        => /\ last.exc = "None"
           /\ last.val <=> \A tile \in Occupied(last.arg) : Supporting(tile)

-----------------------------------------------------------------------------
(* Vocabulary of the properties of the validator and the parser.           *)

(* The last call was op on a text and a codec.                             *)
LastParse(op) == last.op = op

LastText == last.arg.str_map

LastCodec == last.arg.decoder

(* The positions of text just outside its rows: 0, the row separators and  *)
(* Len(text) + 1.                                                          *)
RowEnds(text, decoder) ==
    {0, Len(text) + 1} \cup {k \in 1..Len(text) : text[k] = decoder.row_sep}

(* The numbers of tile characters of the rows of text.                     *)
RowLengths(text, decoder) ==
    {Cardinality({k \in (a + 1)..(b - 1) : text[k] # decoder.col_sep}) :
        <<a, b>> \in {ab \in RowEnds(text, decoder) \X RowEnds(text, decoder) :
                         /\ ab[1] < ab[2]
                         /\ \A c \in RowEnds(text, decoder) :
                                ~(ab[1] < c /\ c < ab[2])}}

(* Check 1: every row is as long as the first.                             *)
Rectangular(text, decoder) == Cardinality(RowLengths(text, decoder)) = 1

(* Check 2: one or two block markers.                                      *)
BlockCountLegal(text, decoder) ==
    Cardinality({k \in 1..Len(text) : text[k] = decoder.block}) \in {1, 2}

(* Check 3: only declared symbols.                                         *)
OnlyDeclared(text, decoder) ==
    \A k \in 1..Len(text) :
        text[k] \in {decoder.empty, decoder.safe, decoder.block, decoder.goal,
                     decoder.col_sep, decoder.row_sep}

(* The tiles <<x, y>> of the stored grid that hold value v.                *)
TilesOf(v) ==
    {xy \in (0..(Len(_map[1]) - 1)) \X (0..(Len(_map) - 1)) :
        _map[xy[2] + 1][xy[1] + 1] = v}

(* Row-major order of tiles.                                               *)
RowMajorBefore(a, b) == a[2] < b[2] \/ (a[2] = b[2] /\ a[1] < b[1])

(* The first block marker in row-major order.                              *)
FirstBlock ==
    CHOOSE a \in TilesOf(_BLOCK_VAL) :
        \A b \in TilesOf(_BLOCK_VAL) : a = b \/ RowMajorBefore(a, b)

(* The last call parsed a text that validate_map accepts.                  *)
ParsedValid == LastParse("init_map") /\ validate_map(LastText, LastCodec)

-----------------------------------------------------------------------------
(* C12: validate_map returns true iff the rows are equally long once the   *)
(* column separators are stripped, the block marker occurs once or twice,  *)
(* and no character is outside the six declared symbols.                   *)
C12_ValidateMapIff ==
    LastParse("validate_map")
        => (last.val <=> /\ Rectangular(LastText, LastCodec)
                         /\ BlockCountLegal(LastText, LastCodec)
                         /\ OnlyDeclared(LastText, LastCodec))

C12_Witness ==
    /\ LastParse("validate_map")
    /\ last.val
    /\ LastCodec = custom_decoder
    /\ \E k \in 1..Len(LastText) : LastText[k] = LastCodec.row_sep

-----------------------------------------------------------------------------
(* C13: for a valid map init_map completes and returns as goal set one     *)
(* entry ((x, y), Vertical) per GoalMarker tile, in row-major order.       *)
(* Stated for the maps whose two block markers share a row, where the      *)
(* block scan cannot raise.                                                *)
C13_GoalSetExact ==
    (/\ ParsedValid
     /\ \E a \in TilesOf(_BLOCK_VAL), b \in TilesOf(_BLOCK_VAL) :
            a # b /\ a[2] = b[2])
        => /\ last.exc = "None"
           /\ Len(last.val.goal) = Cardinality(TilesOf(_GOAL_VAL))
           /\ \A n \in 1..Len(last.val.goal) :
                  /\ last.val.goal[n].pos \in TilesOf(_GOAL_VAL)
                  /\ last.val.goal[n].o = VERTICAL
                  /\ \A m \in (n + 1)..Len(last.val.goal) :
                         RowMajorBefore(last.val.goal[n].pos, last.val.goal[m].pos)

-----------------------------------------------------------------------------
(* C14: for a valid map whose first row with a block marker holds exactly  *)
(* one, at (x, y), init_map completes and returns anchor (x, y) with       *)
(* orientation AxisY if the tile below is a block marker and Vertical      *)
(* otherwise.  Stated for the maps without goal markers, where the goal    *)
(* scan cannot raise.                                                      *)
C14_LoneMarkerOrientation ==
    (/\ ParsedValid
     /\ TilesOf(_GOAL_VAL) = {}
     /\ \A b \in TilesOf(_BLOCK_VAL) : b = FirstBlock \/ b[2] # FirstBlock[2])
        => /\ last.exc = "None"
           /\ last.val.initial =
                  tuple_state(FirstBlock[1], FirstBlock[2],
                              IF <<FirstBlock[1], FirstBlock[2] + 1>>
                                     \in TilesOf(_BLOCK_VAL)
                              THEN 2 ELSE VERTICAL)

-----------------------------------------------------------------------------
(* C15: for a text that validate_map rejects init_map raises the           *)
(* invalid-map error and leaves the stored grid and the stored codec as    *)
(* they were.                                                              *)
C15_RejectedLeavesGame ==
    (LastParse("init_map") /\ ~validate_map(LastText, LastCodec))
        => /\ last.exc = "ValueError"
           /\ _map = last.pre.map
           /\ _decoder = last.pre.decoder

-----------------------------------------------------------------------------
(* Two tiles side by side in a row or one above the other in a column.     *)
Adjacent(a, b) ==
    \/ a[2] = b[2] /\ abs(a[1] - b[1]) = 1
    \/ a[1] = b[1] /\ abs(a[2] - b[2]) = 1

(* C16: a map with two block markers that are not adjacent is rejected:    *)
(* init_map raises instead of returning an initial state.                  *)
C16_ScatteredMarkersRejected ==
    (/\ ParsedValid
     /\ \E a \in TilesOf(_BLOCK_VAL), b \in TilesOf(_BLOCK_VAL) :
            a # b /\ ~Adjacent(a, b))
        => last.exc # "None"

-----------------------------------------------------------------------------
(* C17: every state reached from the parsed initial state by results of    *)
(* enumerated actions has an orientation AxisX, AxisY or Vertical and      *)
(* occupies only non-Empty tiles inside the grid.                          *)
C17_ReachableSupported ==
    /\ InGrid(node)
    /\ \A tile \in Occupied(node) : Supporting(tile)

-----------------------------------------------------------------------------
(* C18: after a call of actions or result, whatever its outcome, the       *)
(* current-state cell of the game holds the value it held before and is    *)
(* not the object the caller passed in.                                    *)
C18_CellRestored ==
    last.op \in {"actions", "result"}
        => (_state = last.pre /\ ~aliased)

-----------------------------------------------------------------------------
(* The action that undoes action.                                          *)
Opposite(action) == <<action[1], -action[2]>>

(* action is in the list actions(state) returns.                           *)
Enumerated(state, action) ==
    LET act_arg == actions(_state, state)
    IN  /\ act_arg.exc = "None"
        /\ \E n \in 1..Len(act_arg.val) : act_arg.val[n] = action

(* C20: a move the search applied is undone by the same operator along     *)
(* the opposite direction, and that opposite action is among the actions   *)
(* of the state the move led to.                                           *)
C20_Reversible ==
    (last.op = "result" /\ last.exc = "None")
        => /\ call(last.action[1], last.arg, last.action[2], TRUE).val
                  => result(_state, node, Opposite(last.action)).val
                         = deep_copy(last.arg)
           /\ Enumerated(last.arg, last.action)
                  => Enumerated(node, Opposite(last.action))

-----------------------------------------------------------------------------
(* What the call of exploration p returns when nothing else runs.          *)
Alone(p) ==
    IF procs[p].op = "actions"
    THEN [exc |-> actions(_state, procs[p].state).exc,
          val |-> actions(_state, procs[p].state).val]
    ELSE [exc |-> "None", val |-> <<>>]

(* C19: however the calls of two explorations on one game interleave,      *)
(* each call returns what it returns when run alone.  Stated for the       *)
(* calls of actions, whose argument the call does not overwrite.           *)
C19_InterleavingInvisible ==
    \A p \in Explorations :
        (procs[p].pc = "done" /\ procs[p].op = "actions")
            => [exc |-> procs[p].exc, val |-> procs[p].val] = Alone(p)

=============================================================================
